---- MODULE Spec2Model ----
(***************************************************************************)
(* Model of the two crates of the repository:                              *)
(*   handson2/src/lib.rs  MaxSegmentTree: a max segment tree with lazy     *)
(*                        "clamp to at most v" range updates,              *)
(*   handson1/src/lib.rs  Tree: a binary tree stored in a vector, with     *)
(*                        is_bst and max_path_sum.                         *)
(* Vectors are 0-based functions, Option<T> is a sequence of length 0      *)
(* (None) or 1 (Some).  A panic is the flag `panicked` of the value an     *)
(* operator returns; the actions turn it into status = "panicked".         *)
(***************************************************************************)
EXTENDS Integers, Sequences, FiniteSets, TLC

\* ------------------------------------------------------------------ bounds
\* Longest input array handed to MaxSegmentTree::new.
MaxN == 3
\* Array elements, clamp values and searched values range over 0..MaxVal.
MaxVal == 1
\* Width of the modelled u32 (TLC's integers are 32-bit signed, so the type is
\* modelled narrower; only its order and its top element are used).
U32Bits == 5
\* Width of the modelled usize.
USizeBits == 6
\* Most nodes of a handson1 Tree.
MaxNodes == 3
\* Keys of a handson1 Tree range over 0..MaxKey and u32::MAX.
MaxKey == 2
\* Most query results the scenario driver collects.
MaxResults == 3

U32_MAX == 2^U32Bits - 1
USIZE_MAX == 2^USizeBits - 1

Values == 0..MaxVal

\* ------------------------------------------------------------------ state
VARIABLES
    array,          \* the array the tree stands for: new's input, then clamped by each range_update
    tree,           \* MaxSegmentTree.tree
    ranges,         \* MaxSegmentTree.ranges
    lazy_updates,   \* MaxSegmentTree.lazy_updates
    nodes,          \* handson1 Tree.nodes
    status,         \* "none" (nothing constructed), "built", "panicked"
    last,           \* the last recorded call and what it returned (is_there is not recorded)
    pc,             \* position of the scenario driver
    actual_results  \* the scenario driver's vector of query results

vars == <<array, tree, ranges, lazy_updates, nodes, status, last, pc, actual_results>>
driver == <<pc, actual_results>>
segvars == <<array, tree, ranges, lazy_updates>>

None == <<>>
Some(x) == <<x>>

Min2(a, b) == IF a <= b THEN a ELSE b
Max2(a, b) == IF a >= b THEN a ELSE b

\* arr.len() of a 0-based vector
VecLen(v) == Cardinality(DOMAIN v)
\* vec![x; n]
VecOf(x, n) == [i \in 0..(n - 1) |-> x]
\* every input slice of length 0..MaxN
Arrays == UNION {[0..(n - 1) -> Values] : n \in 0..MaxN}

\* The MaxSegmentTree object as one value.
Self == [tree |-> tree, ranges |-> ranges, lazy_updates |-> lazy_updates, panicked |-> FALSE]
Panic(t) == [t EXCEPT !.panicked = TRUE]
N == VecLen(array)

\* ------------------------------------------------------------------ handson2
get_left_child(node_idx) == 2 * node_idx + 1

\* Mutant: the right child computed as the left one's successor's successor.
get_right_child_off(node_idx) == 2 * node_idx + 3

get_right_child(node_idx) == 2 * node_idx + 2

RECURSIVE build(_, _, _, _, _)
build(t, arr, node_idx, start, end) ==
    IF t.panicked THEN t
    ELSE IF node_idx \notin DOMAIN t.ranges THEN Panic(t)
    ELSE LET t1 == [t EXCEPT !.ranges[node_idx] = <<start, end>>] IN
         IF start = end
         THEN IF start \notin DOMAIN arr THEN Panic(t1)
              ELSE [t1 EXCEPT !.tree[node_idx] = arr[start]]
         ELSE LET mid == (start + end) \div 2
                  t2 == build(t1, arr, get_left_child(node_idx), start, mid)
                  t3 == build(t2, arr, get_right_child(node_idx), mid + 1, end)
              IN  IF t3.panicked THEN t3
                  ELSE [t3 EXCEPT !.tree[node_idx] =
                            Max2(t3.tree[get_left_child(node_idx)],
                                 t3.tree[get_right_child(node_idx)])]

\* Mutant: new returns the empty tree for an empty input instead of building.
new_guarded(arr, overflow_checks) ==
    LET n == VecLen(arr)
        t == [tree |-> VecOf(0, 4 * n), ranges |-> VecOf(<<0, 0>>, 4 * n),
              lazy_updates |-> VecOf(None, 4 * n), panicked |-> FALSE]
    IN  IF n = 0 THEN t ELSE build(t, arr, 0, 0, n - 1)

\* MaxSegmentTree::new.  overflow_checks is the build profile: with it `n - 1`
\* panics for n = 0, without it the subtraction wraps to usize::MAX.
new(arr, overflow_checks) ==
    LET n == VecLen(arr)
        t == [tree |-> VecOf(0, 4 * n), ranges |-> VecOf(<<0, 0>>, 4 * n),
              lazy_updates |-> VecOf(None, 4 * n), panicked |-> FALSE]
    IN  IF n = 0 /\ overflow_checks THEN Panic(t)
        ELSE build(t, arr, 0, 0, (n - 1) % (USIZE_MAX + 1))

\* Mutant: an existing pending update is merged with max instead of min.
propagate_one_child_max(t, node, value) ==
    IF t.panicked THEN t
    ELSE IF node \notin DOMAIN t.lazy_updates THEN Panic(t)
    ELSE [t EXCEPT !.lazy_updates[node] =
              IF t.lazy_updates[node] # None
              THEN Some(Max2(t.lazy_updates[node][1], value))
              ELSE Some(value)]

propagate_one_child(t, node, value) ==
    IF t.panicked THEN t
    ELSE IF node \notin DOMAIN t.lazy_updates THEN Panic(t)
    ELSE [t EXCEPT !.lazy_updates[node] =
              IF t.lazy_updates[node] # None
              THEN Some(Min2(t.lazy_updates[node][1], value))
              ELSE Some(value)]

\* Mutant: a push-down also rewrites the children's ranges, splitting at mid on both sides.
propagate_lazy_update_resplit(t, current, value, node_start, node_end) ==
    IF node_start < node_end
    THEN LET mid == (node_start + node_end) \div 2
             pushed == propagate_one_child(
                           propagate_one_child(t, get_left_child(current), value),
                           get_right_child(current), value)
         IN  IF pushed.panicked THEN pushed
             ELSE [pushed EXCEPT !.ranges[get_left_child(current)] = <<node_start, mid>>,
                                 !.ranges[get_right_child(current)] = <<mid, node_end>>]
    ELSE t

\* Mutant: the update is pushed to the left child only.
propagate_lazy_update_left(t, current, value, node_start, node_end) ==
    IF node_start < node_end
    THEN propagate_one_child(t, get_left_child(current), value)
    ELSE t

propagate_lazy_update(t, current, value, node_start, node_end) ==
    IF node_start < node_end
    THEN propagate_one_child(
             propagate_one_child(t, get_left_child(current), value),
             get_right_child(current), value)
    ELSE t

\* Mutant: the pending update replaces the incoming value instead of being folded into it.
handle_pending_update_replace(t, current, value, node_start, node_end) ==
    IF t.panicked THEN [t |-> t, value |-> value]
    ELSE IF current \notin DOMAIN t.lazy_updates THEN [t |-> Panic(t), value |-> value]
    ELSE IF t.lazy_updates[current] # None
    THEN LET update == t.lazy_updates[current][1]
             t1 == [t EXCEPT !.lazy_updates[current] = None,
                             !.tree[current] = Min2(t.tree[current], update)]
         IN  [t |-> propagate_lazy_update(t1, current, update, node_start, node_end),
              value |-> update]
    ELSE [t |-> t, value |-> value]

\* Mutant: the pending update is read, not taken: it stays at the node.
handle_pending_update_keep(t, current, value, node_start, node_end) ==
    IF t.panicked THEN [t |-> t, value |-> value]
    ELSE IF current \notin DOMAIN t.lazy_updates THEN [t |-> Panic(t), value |-> value]
    ELSE IF t.lazy_updates[current] # None
    THEN LET update == t.lazy_updates[current][1]
             t1 == [t EXCEPT !.tree[current] = Min2(t.tree[current], update)]
         IN  [t |-> propagate_lazy_update(t1, current, update, node_start, node_end),
              value |-> Min2(value, update)]
    ELSE [t |-> t, value |-> value]

\* Mutant: the pending update is pushed to the children without being applied to the
\* node's own value.
handle_pending_update_push_only(t, current, value, node_start, node_end) ==
    IF t.panicked THEN [t |-> t, value |-> value]
    ELSE IF current \notin DOMAIN t.lazy_updates THEN [t |-> Panic(t), value |-> value]
    ELSE IF t.lazy_updates[current] # None
    THEN LET update == t.lazy_updates[current][1]
             t1 == [t EXCEPT !.lazy_updates[current] = None]
         IN  [t |-> propagate_lazy_update(t1, current, update, node_start, node_end),
              value |-> Min2(value, update)]
    ELSE [t |-> t, value |-> value]

\* Returns the tree and the value folded with the pending update.
handle_pending_update(t, current, value, node_start, node_end) ==
    IF t.panicked THEN [t |-> t, value |-> value]
    ELSE IF current \notin DOMAIN t.lazy_updates THEN [t |-> Panic(t), value |-> value]
    ELSE IF t.lazy_updates[current] # None
    THEN LET update == t.lazy_updates[current][1]
             t1 == [t EXCEPT !.lazy_updates[current] = None,
                             !.tree[current] = Min2(t.tree[current], update)]
         IN  [t |-> propagate_lazy_update(t1, current, update, node_start, node_end),
              value |-> Min2(value, update)]
    ELSE [t |-> t, value |-> value]

RECURSIVE range_update_recursive(_, _, _, _, _)
range_update_recursive(t, current, start, end, value) ==
    IF t.panicked THEN t
    ELSE IF current \notin DOMAIN t.ranges THEN Panic(t)
    ELSE LET node_start == t.ranges[current][1]
             node_end == t.ranges[current][2]
         IN
         IF node_start >= start /\ node_end <= end
         THEN \* Total overlap
              LET h == handle_pending_update(t, current, value, node_start, node_end)
                  t1 == [h.t EXCEPT !.tree[current] = Min2(h.t.tree[current], h.value)]
              IN  IF h.t.panicked THEN h.t
                  ELSE propagate_lazy_update(t1, current, h.value, node_start, node_end)
         ELSE IF end < node_start \/ node_end < start
         THEN \* No overlap
              handle_pending_update(t, current, U32_MAX, node_start, node_end).t
         ELSE \* Partial overlap
              LET left_child == get_left_child(current)
                  right_child == get_right_child(current)
                  h == handle_pending_update(t, current, value, node_start, node_end)
                  mid == (node_start + node_end) \div 2
                  t1 == range_update_recursive(h.t, left_child, start, Min2(mid, end), h.value)
                  t2 == range_update_recursive(t1, right_child, Max2(mid + 1, start), end, h.value)
              IN  IF t2.panicked THEN t2
                  ELSE IF left_child \notin DOMAIN t2.tree \/ right_child \notin DOMAIN t2.tree
                  THEN Panic(t2)
                  ELSE [t2 EXCEPT !.tree[current] = Max2(t2.tree[left_child], t2.tree[right_child])]

\* Mutant: the end index is passed on untranslated.
range_update_end(t, start, end, value) ==
    range_update_recursive(t, 0, start - 1, end, value)

range_update(t, start, end, value) ==
    range_update_recursive(t, 0, start - 1, end - 1, value)

\* Returns the tree (the query resolves pending updates) and the result.
RECURSIVE range_max_query_lazy_recursive(_, _, _, _)
range_max_query_lazy_recursive(t, current, start, end) ==
    IF t.panicked THEN [t |-> t, ret |-> 0]
    ELSE IF current \notin DOMAIN t.ranges THEN [t |-> Panic(t), ret |-> 0]
    ELSE LET node_start == t.ranges[current][1]
             node_end == t.ranges[current][2]
             t1 == handle_pending_update(t, current, U32_MAX, node_start, node_end).t
         IN
         IF t1.panicked THEN [t |-> t1, ret |-> 0]
         ELSE IF node_start >= start /\ node_end <= end
         THEN [t |-> t1, ret |-> t1.tree[current]]
         ELSE IF end < node_start \/ node_end < start
         THEN [t |-> t1, ret |-> 0]
         ELSE LET left_child == get_left_child(current)
                  right_child == get_right_child(current)
                  mid == (node_start + node_end) \div 2
                  l == range_max_query_lazy_recursive(t1, left_child, start, Min2(mid, end))
                  r == range_max_query_lazy_recursive(l.t, right_child, Max2(mid + 1, start), end)
              IN  [t |-> r.t, ret |-> Max2(l.ret, r.ret)]

\* Mutant: the indices are passed on untranslated.
range_max_query_lazy_untranslated(t, start, end) ==
    range_max_query_lazy_recursive(t, 0, start, end)

range_max_query_lazy(t, start, end) ==
    range_max_query_lazy_recursive(t, 0, start - 1, end - 1)

\* The count of check_total_overlap, or -1 when an index is out of bounds (a panic).
RECURSIVE check_total_overlap(_, _, _, _, _)
check_total_overlap(t, current, start, end, k) ==
    IF current \notin DOMAIN t.tree THEN -1
    ELSE IF start = end THEN (IF t.tree[current] = k THEN 1 ELSE 0)
    ELSE IF t.tree[current] < k THEN 0
    ELSE IF t.tree[current] = k THEN 1
    ELSE LET mid == (start + end) \div 2
             left_count == check_total_overlap(t, get_left_child(current), start, mid, k)
             right_count == check_total_overlap(t, get_right_child(current), mid + 1, end, k)
         IN  IF left_count < 0 \/ right_count < 0 THEN -1 ELSE left_count + right_count

\* The count of is_there_recursive, or -1 when an index is out of bounds (a panic).
RECURSIVE is_there_recursive(_, _, _, _, _)
is_there_recursive(t, current, start, end, k) ==
    IF current \notin DOMAIN t.ranges THEN -1
    ELSE LET node_start == t.ranges[current][1]
             node_end == t.ranges[current][2]
         IN
         IF node_start >= start /\ node_end <= end
         THEN IF t.tree[current] < k THEN 0
              ELSE check_total_overlap(t, current, node_start, node_end, k)
         ELSE IF end < node_start \/ node_end < start
         THEN 0
         ELSE LET mid == (node_end + node_start) \div 2
                  left_count == is_there_recursive(t, get_left_child(current),
                                                   start, Min2(mid, end), k)
                  right_count == is_there_recursive(t, get_right_child(current),
                                                    Max2(mid + 1, start), end, k)
              IN  IF left_count < 0 \/ right_count < 0 THEN -1 ELSE left_count + right_count

\* Mutant: is_there answers 1 only for two or more occurrences.
is_there_two(t, start, end, k) ==
    LET count == is_there_recursive(t, 0, start, end, k)
    IN  IF count < 0 THEN -1 ELSE IF count > 1 THEN 1 ELSE 0

\* is_there passes its indices on unchanged: they are 0-based.
is_there(t, start, end, k) ==
    LET count == is_there_recursive(t, 0, start, end, k)
    IN  IF count < 0 THEN -1 ELSE IF count >= 1 THEN 1 ELSE 0

\* ------------------------------------------------------------------ handson1
Keys == (0..MaxKey) \cup {U32_MAX}

\* Node::new
Node_new(key) == [key |-> key, id_left |-> None, id_right |-> None]

\* Tree::with_root
with_root(key) == [i \in {0} |-> Node_new(key)]

\* Mutant: add_node without the check that the right slot is free.
add_node_overwrite(ns, parent_id, key, is_left) ==
    IF ~(parent_id < VecLen(ns))
    THEN [nodes |-> ns, ret |-> None, panicked |-> TRUE]
    ELSE IF is_left /\ ns[parent_id].id_left # None
    THEN [nodes |-> ns, ret |-> None, panicked |-> TRUE]
    ELSE LET child_id == VecLen(ns)
             pushed == [i \in 0..child_id |-> IF i = child_id THEN [key |-> key, id_left |-> <<>>, id_right |-> <<>>] ELSE ns[i]]
         IN  [nodes |-> IF is_left
                        THEN [pushed EXCEPT ![parent_id].id_left = <<child_id>>]
                        ELSE [pushed EXCEPT ![parent_id].id_right = <<child_id>>],
              ret |-> <<child_id>>,
              panicked |-> FALSE]

\* Tree::add_node: the nodes afterwards, the id returned, and whether an assertion failed.
add_node(ns, parent_id, key, is_left) ==
    IF ~(parent_id < VecLen(ns))
    THEN [nodes |-> ns, ret |-> None, panicked |-> TRUE]
    ELSE IF is_left /\ ns[parent_id].id_left # None
    THEN [nodes |-> ns, ret |-> None, panicked |-> TRUE]
    ELSE IF ~is_left /\ ns[parent_id].id_right # None
    THEN [nodes |-> ns, ret |-> None, panicked |-> TRUE]
    ELSE LET child_id == VecLen(ns)
             pushed == [i \in 0..child_id |-> IF i = child_id THEN Node_new(key) ELSE ns[i]]
         IN  [nodes |-> IF is_left
                        THEN [pushed EXCEPT ![parent_id].id_left = Some(child_id)]
                        ELSE [pushed EXCEPT ![parent_id].id_right = Some(child_id)],
              ret |-> Some(child_id),
              panicked |-> FALSE]

\* Tree::rec_is_bst: (ans, max, min) of the subtree, and whether the range assertion failed.
RECURSIVE rec_is_bst(_, _)
rec_is_bst(ns, node_id) ==
    IF node_id # None
    THEN LET id == node_id[1] IN
         IF ~(id < VecLen(ns))
         THEN [panicked |-> TRUE, ans |-> FALSE, max |-> 0, min |-> U32_MAX]
         ELSE LET node == ns[id]
                  l == rec_is_bst(ns, node.id_left)
                  r == rec_is_bst(ns, node.id_right)
                  ans_node == l.ans /\ r.ans /\ node.key >= l.max /\ node.key < r.min
                  max_node == Max2(node.key, Max2(l.max, r.max))
                  min_node == Min2(node.key, Min2(l.min, r.min))
              IN  [panicked |-> l.panicked \/ r.panicked,
                   ans |-> ans_node, max |-> max_node, min |-> min_node]
    ELSE [panicked |-> FALSE, ans |-> TRUE, max |-> 0, min |-> U32_MAX]

\* Tree::is_bst
is_bst(ns) == rec_is_bst(ns, Some(0))

\* u32 addition without overflow checks
Wrap(x) == x % (U32_MAX + 1)

\* a + b + c as Rust evaluates it, (a + b) + c: the wrapped sum and whether an addition
\* overflowed
Add3(a, b, c) ==
    [val |-> Wrap(Wrap(a + b) + c), ovf |-> a + b > U32_MAX \/ Wrap(a + b) + c > U32_MAX]

Add2(a, b) == [val |-> Wrap(a + b), ovf |-> a + b > U32_MAX]

\* Tree::rec_max_path_sum: (best, max) of the subtree, and whether it panicked (the
\* range assertion, unreachable!(), or an overflowing addition under overflow checks).
RECURSIVE rec_max_path_sum(_, _, _)
rec_max_path_sum(ns, node_id, overflow_checks) ==
    IF node_id # None
    THEN LET id == node_id[1] IN
         IF ~(id < VecLen(ns))
         THEN [panicked |-> TRUE, best |-> None, max |-> None]
         ELSE LET node == ns[id]
                  l == rec_max_path_sum(ns, node.id_left, overflow_checks)
                  r == rec_max_path_sum(ns, node.id_right, overflow_checks)
                  Ret(best, max, ovf) ==
                      [panicked |-> l.panicked \/ r.panicked \/ (ovf /\ overflow_checks),
                       best |-> best, max |-> max]
              IN
              IF l.panicked \/ r.panicked
              THEN [panicked |-> TRUE, best |-> None, max |-> None]
              ELSE IF l.max # None /\ r.max # None
              THEN \* both subtrees hold a leaf: the four arms that build a path through the node
                   LET path == Add3(node.key, l.max[1], r.max[1])
                       max == Add2(Max2(l.max[1], r.max[1]), node.key)
                       best == IF l.best # None /\ r.best # None
                               THEN Max2(path.val, Max2(l.best[1], r.best[1]))
                               ELSE IF r.best # None THEN Max2(path.val, r.best[1])
                               ELSE IF l.best # None THEN Max2(path.val, l.best[1])
                               ELSE path.val
                   IN  IF path.ovf /\ overflow_checks
                       THEN [panicked |-> TRUE, best |-> None, max |-> None]
                       ELSE Ret(Some(best), Some(max.val), max.ovf)
              ELSE IF l.best # None /\ l.max # None /\ r.best = None /\ r.max = None
              THEN LET max == Add2(l.max[1], node.key) IN Ret(l.best, Some(max.val), max.ovf)
              ELSE IF l.best = None /\ l.max = None /\ r.best # None /\ r.max # None
              THEN LET max == Add2(r.max[1], node.key) IN Ret(r.best, Some(max.val), max.ovf)
              ELSE IF l.best = None /\ l.max # None /\ r.best = None /\ r.max = None
              THEN LET max == Add2(l.max[1], node.key) IN Ret(None, Some(max.val), max.ovf)
              ELSE IF l.best = None /\ l.max = None /\ r.best = None /\ r.max # None
              THEN LET max == Add2(r.max[1], node.key) IN Ret(None, Some(max.val), max.ovf)
              ELSE IF l.best = None /\ l.max = None /\ r.best = None /\ r.max = None
              THEN Ret(None, Some(node.key), FALSE)
              ELSE \* unreachable!()
                   [panicked |-> TRUE, best |-> None, max |-> None]
    ELSE [panicked |-> FALSE, best |-> None, max |-> None]

\* Tree::max_path_sum
max_path_sum(ns, overflow_checks) == rec_max_path_sum(ns, Some(0), overflow_checks)

Init ==
    /\ array = <<>>
    /\ tree = <<>>
    /\ ranges = <<>>
    /\ lazy_updates = <<>>
    /\ nodes = <<>>
    /\ status = "none"
    /\ last = [op |-> "none", ret |-> None]
    /\ pc = 0
    /\ actual_results = <<>>

Install(t) ==
    /\ tree' = t.tree
    /\ ranges' = t.ranges
    /\ lazy_updates' = t.lazy_updates
    /\ status' = IF t.panicked THEN "panicked" ELSE "built"

\* let mut max_segment_tree = MaxSegmentTree::new(arr)
New(arr) ==
    /\ status = "none"
    /\ \E overflow_checks \in BOOLEAN : Install(new(arr, overflow_checks))
    /\ array' = arr
    /\ last' = [op |-> "new", ret |-> None]

\* max_segment_tree.range_update(start, end, value), 1 <= start <= end <= n
RangeUpdate(start, end, value) ==
    /\ status = "built"
    /\ 1 <= start /\ start <= end /\ end <= N
    /\ Install(range_update(Self, start, end, value))
    /\ array' = [i \in DOMAIN array |->
                    IF start - 1 <= i /\ i <= end - 1 THEN Min2(array[i], value) ELSE array[i]]
    /\ last' = [op |-> "range_update", ret |-> None]

\* max_segment_tree.range_max_query_lazy(start, end), 1 <= start <= end <= n
RangeMaxQueryLazy(start, end) ==
    /\ status = "built"
    /\ 1 <= start /\ start <= end /\ end <= N
    /\ LET q == range_max_query_lazy(Self, start, end)
       IN  /\ Install(q.t)
           /\ last' = [op |-> "range_max_query_lazy", ret |-> Some(q.ret)]
    /\ UNCHANGED array

\* max_segment_tree.is_there(start, end, k), 0 <= start <= end <= n - 1.  is_there
\* takes &self: it changes nothing unless it panics, and what it returns is
\* is_there(Self, start, end, k).
IsThere(start, end, k) ==
    /\ status = "built"
    /\ 0 <= start /\ start <= end /\ end <= N - 1
    /\ status' = IF is_there(Self, start, end, k) < 0 THEN "panicked" ELSE status
    /\ UNCHANGED <<segvars, last>>

Next ==
    \/ \E arr \in Arrays : New(arr) /\ UNCHANGED <<nodes, driver>>
    \/ \E s \in 1..MaxN, e \in 1..MaxN, v \in Values :
          RangeUpdate(s, e, v) /\ UNCHANGED <<nodes, driver>>
    \/ \E s \in 1..MaxN, e \in 1..MaxN :
          RangeMaxQueryLazy(s, e) /\ UNCHANGED <<nodes, driver>>
    \/ \E s \in 0..MaxN, e \in 0..MaxN, k \in Values :
          IsThere(s, e, k) /\ UNCHANGED <<nodes, driver>>

Spec == Init /\ [][Next]_vars

\* ------------------------------------------------------------------ handson1 actions
\* let mut tree = Tree::with_root(key)
WithRoot(key) ==
    /\ status = "none"
    /\ nodes' = with_root(key)
    /\ status' = "built"
    /\ last' = [op |-> "with_root", ret |-> None]
    /\ UNCHANGED <<segvars, driver>>

\* tree.add_node(parent_id, key, is_left)
AddNode(parent_id, key, is_left) ==
    /\ status = "built"
    /\ VecLen(nodes) < MaxNodes
    /\ LET r == add_node(nodes, parent_id, key, is_left)
       IN  /\ nodes' = r.nodes
           /\ status' = IF r.panicked THEN "panicked" ELSE status
           /\ last' = [op |-> "add_node", ret |-> r.ret]
    /\ UNCHANGED <<segvars, driver>>

\* tree.is_bst()
IsBst ==
    /\ status = "built"
    /\ LET r == is_bst(nodes)
       IN  /\ status' = IF r.panicked THEN "panicked" ELSE status
           /\ last' = [op |-> "is_bst", ret |-> Some(r.ans)]
    /\ UNCHANGED <<nodes, segvars, driver>>

\* tree.max_path_sum(), in either build profile
MaxPathSum ==
    /\ status = "built"
    /\ \E overflow_checks \in BOOLEAN :
          LET r == max_path_sum(nodes, overflow_checks)
          IN  /\ status' = IF r.panicked THEN "panicked" ELSE status
              /\ last' = [op |-> "max_path_sum", ret |-> IF r.panicked THEN None ELSE Some(r.best)]
    /\ UNCHANGED <<nodes, segvars, driver>>

TreeNext ==
    \/ \E key \in Keys : WithRoot(key)
    \/ \E parent_id \in 0..MaxNodes, key \in Keys, is_left \in BOOLEAN :
          AddNode(parent_id, key, is_left)
    \/ IsBst
    \/ MaxPathSum

TreeSpec == Init /\ [][TreeNext]_vars

\* ------------------------------------------------------------------ the scenario driver
\* A = [19, 23, 17, 14, 9, 11, 7]; range_update(1, 4, 22); range_update(3, 5, 15), with
\* range_max_query_lazy calls in between whose results are collected as the test
\* harness does.
ScenarioA == [i \in 0..6 |-> <<19, 23, 17, 14, 9, 11, 7>>[i + 1]]

ScenarioInit ==
    /\ array = ScenarioA
    /\ LET t == new(ScenarioA, TRUE)
       IN  tree = t.tree /\ ranges = t.ranges /\ lazy_updates = t.lazy_updates
    /\ nodes = <<>>
    /\ status = "built"
    /\ last = [op |-> "new", ret |-> None]
    /\ pc = 0
    /\ actual_results = <<>>

ScenarioUpdate1 ==
    pc = 0 /\ RangeUpdate(1, 4, 22) /\ pc' = 1 /\ UNCHANGED <<nodes, actual_results>>

ScenarioUpdate2 ==
    pc = 1 /\ RangeUpdate(3, 5, 15) /\ pc' = 2 /\ UNCHANGED <<nodes, actual_results>>

ScenarioQuery ==
    /\ Len(actual_results) < MaxResults
    /\ \E s \in 1..7, e \in 1..7 : RangeMaxQueryLazy(s, e)
    /\ actual_results' = Append(actual_results, last'.ret[1])
    /\ UNCHANGED <<nodes, pc>>

ScenarioNext == ScenarioUpdate1 \/ ScenarioUpdate2 \/ ScenarioQuery

ScenarioSpec == ScenarioInit /\ [][ScenarioNext]_vars

\* ------------------------------------------------------------------ what the tree stands for
\* max of a[lo..hi] (0-based, inclusive); 0 for an empty range, as u32 has no smaller value
MaxOver(a, lo, hi) ==
    LET S == {a[i] : i \in (lo..hi) \cap DOMAIN a}
    IN  IF S = {} THEN 0 ELSE CHOOSE m \in S : \A x \in S : x <= m

\* The value index i holds according to the tree alone: the stored leaf value clamped
\* by the pending update of the leaf and of each of its ancestors.
RECURSIVE LogicalAt(_, _, _, _)
LogicalAt(t, node, i, bound) ==
    LET node_start == t.ranges[node][1]
        node_end == t.ranges[node][2]
        b == IF t.lazy_updates[node] # None THEN Min2(bound, t.lazy_updates[node][1]) ELSE bound
        mid == (node_start + node_end) \div 2
    IN  IF node_start = node_end THEN Min2(t.tree[node], b)
        ELSE IF i <= mid THEN LogicalAt(t, get_left_child(node), i, b)
        ELSE LogicalAt(t, get_right_child(node), i, b)

Logical(t) == [i \in DOMAIN array |-> LogicalAt(t, 0, i, U32_MAX)]

NoPending(t) == \A i \in DOMAIN t.lazy_updates : t.lazy_updates[i] = None
SomePending(t) == \E i \in DOMAIN t.lazy_updates : t.lazy_updates[i] # None

\* the valid 1-based ranges of the built tree
ValidRanges == {r \in (1..N) \X (1..N) : r[1] <= r[2]}

\* ------------------------------------------------------------------ claims
\* C1: after new(A) and any sequence of range_update and range_max_query_lazy calls with
\* valid 1-based ranges, range_max_query_lazy(s, e) returns the maximum over s..e of the
\* current array, where the current value at i is A[i] clamped by every earlier update
\* covering i.
C1_RangeMaxIsLogicalMax ==
    status = "built" =>
        \A r \in ValidRanges :
            LET q == range_max_query_lazy(Self, r[1], r[2])
            IN  /\ ~q.t.panicked
                /\ q.ret = MaxOver(array, r[1] - 1, r[2] - 1)

\* A query has just answered 1 on a tree of full length that still holds a pending
\* clamp to 0 somewhere.
C1_Witness ==
    /\ status = "built" /\ N = MaxN
    /\ last = [op |-> "range_max_query_lazy", ret |-> Some(1)]
    /\ \E i \in DOMAIN lazy_updates : lazy_updates[i] = Some(0)

\* C2: with no pending update anywhere, is_there(s, e, k) is 1 iff some index of s..e
\* (0-based, as is_there addresses the array) holds k, and 0 otherwise.
C2_IsThereIffPresent ==
    (status = "built" /\ NoPending(Self)) =>
        \A s \in 0..(N - 1), e \in 0..(N - 1), k \in 0..(MaxVal + 1) :
            s <= e =>
                is_there(Self, s, e, k) = IF \E i \in s..e : array[i] = k THEN 1 ELSE 0

\* A range_update has just run on a tree of full length and left nothing pending, and
\* is_there answers 1 for one value and 0 for another over the whole array.
C2_Witness ==
    /\ status = "built" /\ N = MaxN /\ NoPending(Self)
    /\ last.op = "range_update"
    /\ \E i, j \in DOMAIN array : array[i] # array[j]
    /\ is_there(Self, 0, N - 1, 0) = 1
    /\ is_there(Self, 0, N - 1, MaxVal + 1) = 0

\* C3: applying range_update(s, e, v) twice in a row leaves every stored value and every
\* pending update as one application does.
C3_UpdateIdempotent ==
    status = "built" =>
        \A r \in ValidRanges, v \in Values :
            LET t1 == range_update(Self, r[1], r[2], v)
            IN  range_update(t1, r[1], r[2], v) = t1

\* A range_update has just run and left a pending update behind.
C3_Witness ==
    /\ status = "built" /\ N = MaxN
    /\ last.op = "range_update"
    /\ SomePending(Self)

\* C4: for v1 <= v2, range_update(s, e, v1) followed by range_update(s, e, v2) leaves
\* the tree exactly as range_update(s, e, v1) alone.
C4_ClampMonotone ==
    status = "built" =>
        \A r \in ValidRanges, v1 \in Values :
            LET t1 == range_update(Self, r[1], r[2], v1)
            IN  \A v2 \in Values : v1 <= v2 => range_update(t1, r[1], r[2], v2) = t1

\* A range_update has just run and two different clamp values are pending.
C4_Witness ==
    /\ status = "built"
    /\ last.op = "range_update"
    /\ \E i, j \in DOMAIN lazy_updates :
          /\ lazy_updates[i] # None /\ lazy_updates[j] # None
          /\ lazy_updates[i][1] < lazy_updates[j][1]

\* C5: range_max_query_lazy may move or clear pending updates but leaves the value of
\* every index as it was: the value read off the tree is that of the clamped array
\* before the query and after it.  (Every later query answers the maximum of these
\* values, by C1 in the state the query leaves.)
C5_QueryKeepsLogical ==
    status = "built" =>
        /\ Logical(Self) = array
        /\ \A r \in ValidRanges :
              LET q == range_max_query_lazy(Self, r[1], r[2])
              IN  ~q.t.panicked /\ Logical(q.t) = array

\* A query has just run, a pending update has reached a leaf, and some stored leaf value
\* is still above the value its index holds.
C5_Witness ==
    /\ status = "built" /\ N = MaxN
    /\ last.op = "range_max_query_lazy"
    /\ \E i \in DOMAIN ranges :
          /\ lazy_updates[i] # None
          /\ i > 0 /\ ranges[i][1] = ranges[i][2]
          /\ lazy_updates[i][1] < tree[i]

\* what range_update(s, e, v) does to a, told by the 0-based positions lo..hi it clamps
ClampRange(a, lo, hi, v) ==
    [i \in DOMAIN a |-> IF lo <= i /\ i <= hi THEN Min2(a[i], v) ELSE a[i]]

\* is_there looked for k at exactly the 0-based positions lo..hi
IsThereActsOn(t, s, e, k, lo, hi) ==
    is_there(t, s, e, k) = IF \E i \in (lo..hi) \cap DOMAIN array : Logical(t)[i] = k THEN 1 ELSE 0

\* range_update(s, e, v) and range_max_query_lazy(s, e) act on exactly the 0-based
\* positions s-1..e-1
UpdateAndQueryOneBased ==
    LET current == Logical(Self)
    IN  \A r \in ValidRanges :
            /\ \A v \in Values :
                  Logical(range_update(Self, r[1], r[2], v))
                      = ClampRange(current, r[1] - 1, r[2] - 1, v)
            /\ range_max_query_lazy(Self, r[1], r[2]).ret
                  = MaxOver(current, r[1] - 1, r[2] - 1)

\* C6 as stated: all three operations take 1-based inclusive indices, so a call with
\* (start, end) acts on exactly the 0-based positions start-1..end-1; for is_there this
\* is read where nothing is pending.
C6_AllOneBased ==
    status = "built" =>
        /\ UpdateAndQueryOneBased
        /\ NoPending(Self) =>
              \A r \in ValidRanges, k \in Values :
                  IsThereActsOn(Self, r[1], r[2], k, r[1] - 1, r[2] - 1)

\* C6 as amended: range_update and range_max_query_lazy take 1-based inclusive indices
\* and act on positions start-1..end-1; is_there passes its indices on untranslated and
\* acts on positions start..end.
C6_IndexTranslation ==
    status = "built" =>
        /\ UpdateAndQueryOneBased
        /\ NoPending(Self) =>
              \A s \in 0..(N - 1), e \in 0..(N - 1), k \in Values :
                  s <= e => IsThereActsOn(Self, s, e, k, s, e)

\* After a range_update, with nothing pending, the value at position 0 occurs nowhere
\* else and is_there(1, n, that value) answers 0: position 0 is not among those it reads.
C6_Witness ==
    /\ status = "built" /\ N = MaxN /\ NoPending(Self)
    /\ last.op = "range_update"
    /\ \A i \in DOMAIN array : i >= 1 => array[i] # array[0]
    /\ is_there(Self, 1, N, array[0]) = 0

\* C7: construction on an empty input fails: new(&[]) panics and returns no tree.
C7_EmptyInputPanics ==
    (status # "none" /\ N = 0) => status = "panicked"

\* new has just been called with the empty slice.
C7_Witness ==
    /\ last.op = "new"
    /\ array = <<>>
    /\ status = "panicked"

\* the nodes build reaches from node i, following the ranges it wrote
RECURSIVE Built(_, _)
Built(t, i) ==
    IF i \notin DOMAIN t.ranges THEN {}
    ELSE IF t.ranges[i][1] >= t.ranges[i][2] THEN {i}
    ELSE {i} \cup Built(t, get_left_child(i)) \cup Built(t, get_right_child(i))

\* C8: right after new on an input of length n >= 1 the three vectors have 4n slots,
\* the root covers [0, n-1], every internal node [start, end] has children 2i+1 over
\* [start, mid] and 2i+2 over [mid+1, end] with mid = (start+end)/2, leaves are the
\* nodes with start = end (nothing is built below them), a leaf holds the input value
\* of its index, an internal node the max of its children, and nothing is pending.
C8_BuildShape ==
    (last.op = "new" /\ N >= 1) =>
        /\ status = "built"
        /\ DOMAIN tree = 0..(4 * N - 1)
        /\ DOMAIN ranges = 0..(4 * N - 1)
        /\ DOMAIN lazy_updates = 0..(4 * N - 1)
        /\ ranges[0] = <<0, N - 1>>
        /\ NoPending(Self)
        /\ \A i \in Built(Self, 0) :
              LET start == ranges[i][1]
                  end == ranges[i][2]
                  mid == (start + end) \div 2
              IN  /\ start <= end
                  /\ start = end => tree[i] = array[start]
                  /\ start < end =>
                        /\ 2 * i + 2 \in DOMAIN tree
                        /\ ranges[2 * i + 1] = <<start, mid>>
                        /\ ranges[2 * i + 2] = <<mid + 1, end>>
                        /\ tree[i] = Max2(tree[2 * i + 1], tree[2 * i + 2])
        /\ \A i \in DOMAIN tree \ Built(Self, 0) : tree[i] = 0 /\ ranges[i] = <<0, 0>>
        /\ Cardinality({i \in Built(Self, 0) : ranges[i][1] = ranges[i][2]}) = N

\* new has just built a tree over a longest input whose maximum is not its first element.
C8_Witness ==
    /\ last.op = "new" /\ status = "built"
    /\ N = MaxN
    /\ tree[0] > array[0]

\* C9: on A = [19,23,17,14,9,11,7], after range_update(1,4,22) range_max_query_lazy(1,4)
\* returns 22; after a further range_update(3,5,15) range_max_query_lazy(1,4) still
\* returns 22 and range_max_query_lazy(3,5) returns 15 (whatever was queried in between).
C9_Scenario ==
    /\ pc = 1 => range_max_query_lazy(Self, 1, 4).ret = 22
    /\ pc = 2 => /\ range_max_query_lazy(Self, 1, 4).ret = 22
                 /\ range_max_query_lazy(Self, 3, 5).ret = 15

\* Both updates are done and the last query answered 15.
C9_Witness ==
    /\ pc = 2
    /\ last = [op |-> "range_max_query_lazy", ret |-> Some(15)]
    /\ actual_results = <<22, 22, 15>>
    /\ array = [i \in 0..6 |-> <<19, 22, 15, 14, 9, 11, 7>>[i + 1]]

\* the ids of the subtree hanging from the child slot `child` (None: no subtree)
RECURSIVE Subtree(_, _)
Subtree(ns, child) ==
    IF child = None THEN {}
    ELSE {child[1]} \cup Subtree(ns, ns[child[1]].id_left) \cup Subtree(ns, ns[child[1]].id_right)

\* every key of a node's left subtree is <= the node's key, every key of its right
\* subtree is > it
Ordered(ns) ==
    \A id \in DOMAIN ns :
        /\ \A l \in Subtree(ns, ns[id].id_left) : ns[l].key <= ns[id].key
        /\ \A r \in Subtree(ns, ns[id].id_right) : ns[r].key > ns[id].key

\* C10: for every tree built with with_root and add_node and every key of the u32 domain
\* (0 and u32::MAX included), is_bst returns true iff every node's left subtree holds
\* only keys <= its key and its right subtree only keys > its key; a tree of the root
\* alone is always a BST.
C10_IsBstIffOrdered ==
    (status = "built" /\ VecLen(nodes) >= 1) =>
        /\ ~is_bst(nodes).panicked
        /\ is_bst(nodes).ans <=> Ordered(nodes)

\* the ids on the way from the root down to id, both included
RECURSIVE Ancestors(_, _)
Ancestors(ns, id) ==
    LET parents == {p \in DOMAIN ns : ns[p].id_left = Some(id) \/ ns[p].id_right = Some(id)}
    IN  IF parents = {} THEN {id}
        ELSE {id} \cup Ancestors(ns, CHOOSE p \in parents : TRUE)

RECURSIVE KeySum(_, _)
KeySum(ns, ids) ==
    IF ids = {} THEN 0
    ELSE LET id == CHOOSE x \in ids : TRUE IN ns[id].key + KeySum(ns, ids \ {id})

\* a leaf is a node with no children
Leaves(ns) == {id \in DOMAIN ns : ns[id].id_left = None /\ ns[id].id_right = None}

\* the ids on the simple path between a and b: what is above only one of them, and
\* their lowest common ancestor
PathBetween(ns, a, b) ==
    LET A == Ancestors(ns, a)
        B == Ancestors(ns, b)
        common == A \cap B
        lca == CHOOSE c \in common : \A d \in common : d \in Ancestors(ns, c)
    IN  ((A \cup B) \ common) \cup {lca}

\* what max_path_sum is to return
MaxLeafPath(ns) ==
    LET S == {KeySum(ns, PathBetween(ns, pr[1], pr[2])) :
                 pr \in {q \in Leaves(ns) \X Leaves(ns) : q[1] # q[2]}}
    IN  IF S = {} THEN None ELSE Some(CHOOSE m \in S : \A x \in S : x <= m)

\* C11: for every tree built with with_root and add_node, max_path_sum returns None iff
\* the tree has fewer than two leaves, and otherwise Some(m), m the largest sum of keys
\* over the simple paths between two distinct leaves.
C11_MaxPathSum ==
    (status = "built" /\ VecLen(nodes) >= 1) =>
        \A overflow_checks \in BOOLEAN :
            LET r == max_path_sum(nodes, overflow_checks)
            IN  /\ ~r.panicked
                /\ r.best = MaxLeafPath(nodes)
                /\ r.best = None <=> Cardinality(Leaves(nodes)) < 2

\* C12: add_node panics, adding no node, when parent_id names no node or the requested
\* child slot of the parent is taken; otherwise it appends exactly one node whose id is
\* the previous node count, returns that id, sets only the requested slot of the parent
\* and leaves every other node, key and slot as it was.
C12_AddNode ==
    status = "built" =>
        \A parent_id \in 0..MaxNodes, key \in Keys, is_left \in BOOLEAN :
            LET r == add_node(nodes, parent_id, key, is_left)
                count == VecLen(nodes)
                refused == \/ parent_id >= count
                           \/ is_left /\ nodes[parent_id].id_left # None
                           \/ ~is_left /\ nodes[parent_id].id_right # None
            IN  /\ r.panicked <=> refused
                /\ refused => r.nodes = nodes
                /\ ~refused =>
                      /\ DOMAIN r.nodes = 0..count
                      /\ r.ret = Some(count)
                      /\ r.nodes[count] = [key |-> key, id_left |-> None, id_right |-> None]
                      /\ \A i \in 0..(count - 1) :
                            /\ r.nodes[i].key = nodes[i].key
                            /\ IF i = parent_id /\ is_left
                               THEN r.nodes[i].id_left = Some(count)
                               ELSE r.nodes[i].id_left = nodes[i].id_left
                            /\ IF i = parent_id /\ ~is_left
                               THEN r.nodes[i].id_right = Some(count)
                               ELSE r.nodes[i].id_right = nodes[i].id_right

C12_Witness ==
    /\ last.op = "add_node"
    /\ last.ret = Some(2)
    /\ VecLen(nodes) = 3
    /\ nodes[0].id_left = Some(2)
    /\ nodes[0].id_right = Some(1)

\* the nodes build initialised, and those of them that have children
BuiltNodes == Built(Self, 0)
InternalNodes == {i \in BuiltNodes : ranges[i][1] < ranges[i][2]}
Children(i) == {get_left_child(i), get_right_child(i)}

\* C13 as stated: in every state reached by range_update and range_max_query_lazy calls,
\* every node that holds a pending update has pending_update <= its own stored value.
C13_PendingAtMostValue ==
    status = "built" =>
        \A i \in BuiltNodes : lazy_updates[i] # None => lazy_updates[i][1] <= tree[i]

\* C13 amended: a pending update is not bounded by the node's own stored value, which it
\* has not been applied to yet; it is bounded by the parent's: in every state reached by
\* range_update and range_max_query_lazy calls, every node that holds a pending update
\* has pending_update >= the stored value of its parent, and the root holds none.
C13_PendingAtLeastParentValue ==
    status = "built" =>
        /\ lazy_updates[0] = None
        /\ \A i \in InternalNodes : \A c \in Children(i) :
              lazy_updates[c] # None => lazy_updates[c][1] >= tree[i]

C13_Witness ==
    /\ status = "built"
    /\ last.op = "range_update"
    /\ \E i \in InternalNodes : \E c \in Children(i) :
          /\ lazy_updates[c] # None
          /\ lazy_updates[c][1] > tree[c]
          /\ lazy_updates[c][1] >= tree[i]

\* the stored value of a node clamped by its own pending update
Effective(i) ==
    IF lazy_updates[i] # None THEN Min2(tree[i], lazy_updates[i][1]) ELSE tree[i]

\* C14 as stated: right after a range_update or range_max_query_lazy on a tree over at
\* least two elements, the root's stored value is exactly the larger of the stored values
\* of its two children.
C14_RootIsMaxOfChildValues ==
    (status = "built" /\ N >= 2 /\ last.op \in {"range_update", "range_max_query_lazy"}) =>
        tree[0] = Max2(tree[get_left_child(0)], tree[get_right_child(0)])

\* C14 amended: right after a range_update or range_max_query_lazy on a tree over at
\* least two elements, the root's stored value is exactly the larger of its two children's
\* stored values each clamped by the child's own pending update.
C14_RootIsMaxOfEffectiveChildren ==
    (status = "built" /\ N >= 2 /\ last.op \in {"range_update", "range_max_query_lazy"}) =>
        tree[0] = Max2(Effective(get_left_child(0)), Effective(get_right_child(0)))

C14_Witness ==
    /\ status = "built"
    /\ N >= 2
    /\ last.op = "range_update"
    /\ lazy_updates[get_left_child(0)] # None
    /\ tree[0] < Max2(tree[get_left_child(0)], tree[get_right_child(0)])

\* whether k is among the current values at the 0-based positions lo..hi
Holds(lo, hi, k) == \E i \in (lo..hi) \cap DOMAIN array : array[i] = k

\* C15: when is_there(s, e, k) directly follows range_max_query_lazy(s+1, e+1), the same
\* 0-based region s..e, after any updates, it returns 1 exactly when some index of the
\* region holds the current value k, and 0 otherwise.
C15_IsThereAfterQuery ==
    status = "built" =>
        \A s \in 0..(N - 1) : \A e \in s..(N - 1) :
            LET q == range_max_query_lazy(Self, s + 1, e + 1)
            IN  \A k \in 0..(MaxVal + 1) :
                    is_there(q.t, s, e, k) = IF Holds(s, e, k) THEN 1 ELSE 0

\* a region whose is_there answer is wrong before the query and right after it
C15_Witness ==
    /\ status = "built"
    /\ \E s \in 0..(N - 1) : \E e \in s..(N - 1) : \E k \in Values :
          LET q == range_max_query_lazy(Self, s + 1, e + 1)
          IN  /\ q.t.lazy_updates # lazy_updates
              /\ SomePending(q.t)
              /\ is_there(Self, s, e, k) # is_there(q.t, s, e, k)
              /\ is_there(q.t, s, e, k) = 1

\* is_there(s, e, k) on the current tree answers differently from the current array
Stale(s, e, k) == is_there(Self, s, e, k) # IF Holds(s, e, k) THEN 1 ELSE 0

\* C16: stale existence results are reachable: some updates leave a tree on which
\* is_there, called with updates still pending, answers differently from the current
\* array (the witness). Wherever that happens a node overlapping the region holds a
\* pending update below its stored value.
C16_StaleOnlyUnderPending ==
    status = "built" =>
        \A s \in 0..(N - 1) : \A e \in s..(N - 1) : \A k \in 0..(MaxVal + 1) :
            Stale(s, e, k) =>
                \E i \in BuiltNodes :
                    /\ ranges[i][1] <= e /\ s <= ranges[i][2]
                    /\ lazy_updates[i] # None
                    /\ lazy_updates[i][1] < tree[i]

\* a stale 1 (k is gone) and a stale 0 (k is there) on one tree
C16_Witness ==
    /\ status = "built"
    /\ last.op = "range_update"
    /\ SomePending(Self)
    /\ \E s \in 0..(N - 1) : \E e \in s..(N - 1) : \E k \in Values :
          is_there(Self, s, e, k) = 1 /\ ~Holds(s, e, k)
    /\ \E s \in 0..(N - 1) : \E e \in s..(N - 1) : \E k \in Values :
          is_there(Self, s, e, k) = 0 /\ Holds(s, e, k)

\* the tree with its three vectors cut down to the nodes build initialised: an access to
\* any other slot is out of bounds there
BuiltOnly ==
    [tree |-> [i \in BuiltNodes |-> tree[i]],
     ranges |-> [i \in BuiltNodes |-> ranges[i]],
     lazy_updates |-> [i \in BuiltNodes |-> lazy_updates[i]],
     panicked |-> FALSE]

\* C17: for n >= 1 and valid ranges, every node index build, range_update,
\* range_max_query_lazy and is_there read or write, the children written by a push-down
\* and the calls on clipped sub-ranges with start > end included, is below 4n and is a node
\* build initialised; the recursion never goes below a leaf.
C17_IndicesInBounds ==
    /\ (last.op = "new" /\ N >= 1) => status = "built"
    /\ status = "built" =>
          /\ N >= 1
          /\ DOMAIN tree = 0..(4 * N - 1)
          /\ BuiltNodes \subseteq 0..(4 * N - 1)
          /\ \A i \in BuiltNodes :
                ranges[i][1] = ranges[i][2] =>
                    Children(i) \cap BuiltNodes = {}
          /\ LET t == BuiltOnly
             IN  \A r \in ValidRanges :
                    /\ \A v \in Values : ~range_update(t, r[1], r[2], v).panicked
                    /\ ~range_max_query_lazy(t, r[1], r[2]).t.panicked
                    /\ \A k \in Values : is_there(t, r[1] - 1, r[2] - 1, k) >= 0

\* a tree over three elements with a pending update at a leaf's parent: a query of one
\* position pushes down to both leaves and visits one with a clipped range start > end
C17_Witness ==
    /\ status = "built"
    /\ N = 3
    /\ last.op = "range_update"
    /\ lazy_updates[get_left_child(0)] # None
    /\ Cardinality(BuiltNodes) < 4 * N

\* The nodes a range_update_recursive or range_max_query_lazy_recursive call on
\* (current, start, end) is called on: the node itself and, on partial overlap, those of
\* the two calls on the children with the clipped ranges.
RECURSIVE Visited(_, _, _, _)
Visited(t, current, start, end) ==
    IF current \notin DOMAIN t.ranges THEN {}
    ELSE LET node_start == t.ranges[current][1]
             node_end == t.ranges[current][2]
             mid == (node_start + node_end) \div 2
         IN  IF node_start >= start /\ node_end <= end THEN {current}
             ELSE IF end < node_start \/ node_end < start THEN {current}
             ELSE {current}
                    \cup Visited(t, get_left_child(current), start, Min2(mid, end))
                    \cup Visited(t, get_right_child(current), Max2(mid + 1, start), end)

\* every node of S holds no pending update in t, and its stored value is the maximum of
\* a over its range
Resolved(t, S, a) ==
    \A i \in S :
        /\ t.lazy_updates[i] = None
        /\ t.tree[i] = MaxOver(a, t.ranges[i][1], t.ranges[i][2])

\* C18: every node a query or update traversal visits has its pending update resolved
\* before its value is read, returned or recomputed: when the operation completes no
\* visited node holds a pending update, and the value each visited node then stores is
\* the maximum of the current array over its range.
C18_VisitedResolved ==
    status = "built" =>
        \A r \in ValidRanges :
            LET S == Visited(Self, 0, r[1] - 1, r[2] - 1)
            IN  /\ Resolved(range_max_query_lazy(Self, r[1], r[2]).t, S, array)
                /\ \A v \in Values :
                      Resolved(range_update(Self, r[1], r[2], v), S,
                               ClampRange(array, r[1] - 1, r[2] - 1, v))

\* a query that visits a node holding a pending update below its stored value
C18_Witness ==
    /\ status = "built"
    /\ \E r \in ValidRanges :
          LET q == range_max_query_lazy(Self, r[1], r[2])
          IN  \E i \in Visited(Self, 0, r[1] - 1, r[2] - 1) :
                  /\ lazy_updates[i] # None
                  /\ q.t.lazy_updates[i] = None
                  /\ q.t.tree[i] < tree[i]

\* C19: once built, the ranges never change: no range_update, range_max_query_lazy or
\* is_there changes any node's range, and the number of node slots stays what new made it.
C19_RangesFixed ==
    [][status = "built" =>
          /\ ranges' = ranges
          /\ DOMAIN tree' = DOMAIN tree
          /\ DOMAIN lazy_updates' = DOMAIN lazy_updates
          /\ DOMAIN tree' = 0..(4 * N - 1)]_vars

\* an update and a query have run and pushed updates down
C19_Witness ==
    /\ status = "built"
    /\ last.op = "range_max_query_lazy"
    /\ SomePending(Self)
    /\ \E i \in BuiltNodes : tree[i] # MaxOver(array, ranges[i][1], ranges[i][2])
    /\ \A i \in InternalNodes :
          LET mid == (ranges[i][1] + ranges[i][2]) \div 2
          IN  /\ ranges[get_left_child(i)] = <<ranges[i][1], mid>>
              /\ ranges[get_right_child(i)] = <<mid + 1, ranges[i][2]>>

\* the nodes that hold a pending update
PendingNodes == {i \in BuiltNodes : lazy_updates[i] # None}

\* the tree after the pending update of node i is resolved
ResolvedAt(i) ==
    handle_pending_update(Self, i, U32_MAX, ranges[i][1], ranges[i][2]).t

\* what a push of p makes of a child's pending update
Merged(c, p) ==
    IF lazy_updates[c] # None THEN Some(Min2(lazy_updates[c][1], p)) ELSE Some(p)

\* C20 as stated: resolving a pending update p at a node sets the node's own value to
\* min(value, p), sets each immediate child's value and pending update to their minimum
\* with p, and clears the node's pending update.
C20_ResolveClampsChildValues ==
    status = "built" =>
        \A i \in PendingNodes :
            LET p == lazy_updates[i][1]
                t == ResolvedAt(i)
            IN  /\ t.tree[i] = Min2(tree[i], p)
                /\ t.lazy_updates[i] = None
                /\ i \in InternalNodes =>
                      \A c \in Children(i) :
                          /\ t.tree[c] = Min2(tree[c], p)
                          /\ t.lazy_updates[c] = Merged(c, p)

\* C20 amended: resolving a pending update p at a node sets the node's own value to
\* min(value, p), folds p into the incoming value, sets each immediate child's pending
\* update to its minimum with p (to p when the child has none), leaves the children's
\* stored values as they are, clears the node's pending update and changes nothing else;
\* at a leaf nothing is pushed.
C20_ResolvePushesToChildPending ==
    status = "built" =>
        \A i \in PendingNodes :
            LET p == lazy_updates[i][1]
                t == ResolvedAt(i)
                pushed == IF i \in InternalNodes THEN Children(i) ELSE {}
            IN  /\ ~t.panicked
                /\ t.tree = [tree EXCEPT ![i] = Min2(tree[i], p)]
                /\ t.lazy_updates[i] = None
                /\ \A c \in pushed : t.lazy_updates[c] = Merged(c, p)
                /\ \A j \in DOMAIN lazy_updates \ (pushed \cup {i}) :
                      t.lazy_updates[j] = lazy_updates[j]
                /\ t.ranges = ranges
                /\ \A value \in Values \cup {U32_MAX} :
                      handle_pending_update(Self, i, value, ranges[i][1], ranges[i][2]).value
                          = Min2(value, p)

\* a node with children whose pending update is below a child's stored value, and a child
\* that already holds a pending update of its own
C20_Witness ==
    /\ status = "built"
    /\ \E i \in PendingNodes \cap InternalNodes :
          /\ \E c \in Children(i) : lazy_updates[i][1] < tree[c]
          /\ \E c \in Children(i) : lazy_updates[c] # None

\* the nodes strictly below node i
RECURSIVE Below(_)
Below(i) ==
    IF i \in InternalNodes
    THEN Children(i) \cup Below(get_left_child(i)) \cup Below(get_right_child(i))
    ELSE {}

\* the smaller of an optional pending update and a value
MinWith(pending, v) == IF pending # None THEN Min2(pending[1], v) ELSE v

\* C21: when range_update reaches a node whose range lies inside the update range, it
\* sets the node's value to min(value, v, the node's prior pending update), sets each
\* child's pending update to the min of the child's prior pending update (if any), the
\* node's prior one (if any) and v, and stops descending: no stored value or pending
\* update of a node strictly below the node's children changes.
C21_TotalOverlapFrame ==
    status = "built" =>
        \A i \in BuiltNodes : \A v \in Values :
            \A span \in {ranges[i], <<0, N - 1>>} :
                LET t == range_update_recursive(Self, i, span[1], span[2], v)
                    pushed == MinWith(lazy_updates[i], v)
                    kids == IF i \in InternalNodes THEN Children(i) ELSE {}
                IN  /\ ~t.panicked
                    /\ t.tree[i] = Min2(tree[i], pushed)
                    /\ t.lazy_updates[i] = None
                    /\ \A c \in kids :
                          /\ t.lazy_updates[c] = Some(MinWith(lazy_updates[c], pushed))
                          /\ t.tree[c] = tree[c]
                    /\ \A j \in DOMAIN tree \ (kids \cup {i}) :
                          /\ t.tree[j] = tree[j]
                          /\ t.lazy_updates[j] = lazy_updates[j]
                    /\ t.ranges = ranges

\* a node with a pending update of its own, above a child with another one, and the root
\* above grandchildren that hold pending updates
C21_Witness ==
    /\ status = "built"
    /\ \E i \in PendingNodes \cap InternalNodes : \E c \in Children(i) :
          /\ lazy_updates[c] # None
          /\ lazy_updates[c][1] # lazy_updates[i][1]
    /\ \E j \in Below(0) \ Children(0) : lazy_updates[j] # None

\* the number of indices of lo..hi that hold k
Occurrences(lo, hi, k) == Cardinality({i \in (lo..hi) \cap DOMAIN array : array[i] = k})

\* C22: on a tree with no pending updates is_there_recursive(0, s, e, k) returns the
\* number of indices i of s..e whose value is k.
C22_IsThereRecursiveCounts ==
    (status = "built" /\ NoPending(Self)) =>
        \A s \in 0..(N - 1) : \A e \in s..(N - 1) : \A k \in 0..(MaxVal + 1) :
            is_there_recursive(Self, 0, s, e, k) = Occurrences(s, e, k)

\* the smallest pending update among node i and its ancestors, U32_MAX when there is none
RECURSIVE PendingAbove(_)
PendingAbove(i) ==
    IF i = 0 THEN MinWith(lazy_updates[0], U32_MAX)
    ELSE MinWith(lazy_updates[i], PendingAbove((i - 1) \div 2))

\* C23: between operations every internal node the tree built stores the larger of its
\* two children's effective values, a child's effective value being its stored value
\* clamped by its own pending update; and the maximum of the current array over any
\* node's range is the node's stored value clamped by the pending updates of the node
\* and of all its ancestors.
C23_ValueIsMaxOfEffectiveChildren ==
    status = "built" =>
        /\ \A i \in InternalNodes :
              tree[i] = Max2(Effective(get_left_child(i)), Effective(get_right_child(i)))
        /\ \A i \in BuiltNodes :
              MaxOver(array, ranges[i][1], ranges[i][2]) = Min2(tree[i], PendingAbove(i))

\* a node below the root holds a pending update above children that hold their own, and
\* a leaf's stored value is above the array's because of an ancestor's pending update only
C23_Witness ==
    /\ status = "built"
    /\ \E i \in (PendingNodes \cap InternalNodes) \ {0} :
          \E c \in Children(i) :
              /\ lazy_updates[c] # None
              /\ lazy_updates[c][1] > lazy_updates[i][1]
              /\ Effective(c) > array[ranges[c][1]]

\* the nodes that name id as a child
ParentsOf(ns, id) ==
    {p \in DOMAIN ns : ns[p].id_left = Some(id) \/ ns[p].id_right = Some(id)}

====
